---- MODULE Spec2Model ----
(***************************************************************************)
(* simple_pipe: the relay loop of tools/simple_pipe.c.                     *)
(*                                                                         *)
(* The program reads one struct input_event at a time from stdin, logs it  *)
(* to stderr and writes it to stdout.  The model has one action per        *)
(* outcome of each system call the loop issues.  The kernel side follows   *)
(* POSIX: a call that fails (-1, errno) has transferred no byte; a call    *)
(* interrupted by a signal after it transferred some bytes returns the     *)
(* number of bytes transferred.                                            *)
(***************************************************************************)
EXTENDS Integers, Sequences, FiniteSets, TLC

\* sizeof(struct input_event), scaled down (24 on a 64-bit build).
event_size == 3
\* The longest input stream, in bytes.
MaxInput == 7
\* The most EINTR failures of read() and write() in one run.
MaxIntr == 2
\* The most write() calls of one run that return 0 inside the retry loop.
MaxZero == 1

Byte == 0..1

VARIABLES
    input,          \* the bytes the producer puts on stdin, fixed for a run
    pos,            \* how many bytes of input read() has delivered
    ev,             \* struct input_event ev, as bytes
    bytes_read,     \* ssize_t bytes_read
    bytes_written,  \* ssize_t bytes_written
    total_written,  \* ssize_t total_written (retry loop)
    out,            \* the bytes transmitted on stdout
    err,            \* the lines printed on stderr
    pc,             \* "read" (l.15), "log" (l.34), "write" (l.39), "retry" (l.52), "done"
    status,         \* the exit status; -1 while running
    last,           \* <<call, outcome>> of the latest system call
    site,           \* the source line of the latest system call: 15, 39 or 52
    seen,           \* the <<call, outcome>> faults seen so far
    req,            \* <<offset, length>> of the latest write() request
    sent,           \* bytes of the current record transmitted on stdout
    nreads,         \* read() calls issued
    nwrites,        \* write() calls issued
    nintr,          \* EINTR failures so far
    nzero,          \* zero-byte returns of write() in the retry loop so far
    spin            \* parity of the zero-byte returns that nzero no longer counts

vars == <<input, pos, ev, bytes_read, bytes_written, total_written, out, err, pc,
          status, last, site, seen, req, sent, nreads, nwrites, nintr, nzero, spin>>

-----------------------------------------------------------------------------
\* The kernel side of the two system calls

\* Mutant: the offset is dropped; every write starts at the head of the buffer.
Chunk_FromStart(buf, off, n) == SubSeq(buf, 1, n)

\* n bytes at offset off of a buffer: ((char*)&buf) + off, n.
Chunk(buf, off, n) == SubSeq(buf, off + 1, off + n)

\* The bytes of input not yet delivered.
Avail == Len(input) - pos

\* ev after read() copied the next n bytes of input to its start.
Fill(buf, n) == [i \in 1..event_size |-> IF i <= n THEN input[pos + i] ELSE buf[i]]

Max0(n) == IF n < 0 THEN 0 ELSE n

\* A full transfer and the end of the input are no faults.
Note(call, res) == IF res \in {"FULL", "EOF"} THEN seen ELSE seen \cup {<<call, res>>}

\* read(STDIN_FILENO, &ev, event_size) returns n with outcome res; a failed call
\* (n = -1) delivers nothing.
SysRead(n, res) ==
    /\ bytes_read' = n
    /\ ev' = Fill(ev, Max0(n))
    /\ pos' = pos + Max0(n)
    /\ nreads' = nreads + 1
    /\ last' = <<"read", res>>
    /\ site' = 15
    /\ seen' = Note("read", res)
    /\ sent' = IF res = "FULL" THEN 0 ELSE sent
    /\ nintr' = IF res = "EINTR" THEN nintr + 1 ELSE nintr
    /\ UNCHANGED <<input, bytes_written, out, req, nwrites, nzero, spin>>

\* write(STDOUT_FILENO, ((char*)&ev) + off, len), issued at the given source line,
\* returns n with outcome res; a failed call (n = -1) transmits nothing.
SysWrite(line, off, len, n, res) ==
    /\ bytes_written' = n
    /\ out' = out \o Chunk(ev, off, Max0(n))
    /\ sent' = sent + Max0(n)
    /\ req' = <<off, len>>
    /\ nwrites' = nwrites + 1
    /\ last' = <<"write", res>>
    /\ site' = line
    /\ seen' = Note("write", res)
    /\ nintr' = IF res = "EINTR" THEN nintr + 1 ELSE nintr
    /\ nzero' = IF res = "ZERO" THEN nzero + 1 ELSE nzero
    /\ UNCHANGED <<input, pos, ev, bytes_read, nreads, spin>>

-----------------------------------------------------------------------------
\* The program side: what main() does with each result

Line(m, a) == [msg |-> m, arg |-> a]

\* break / goto end_loop / return code
Exit(code) ==
    /\ pc' = "done"
    /\ status' = code

\* bytes_read == 0: break; return 0.
OnReadZero ==
    /\ Exit(0)
    /\ UNCHANGED <<err, total_written>>

\* bytes_read < 0, errno == EINTR: continue.
OnReadEINTR ==
    /\ pc' = "read"
    /\ UNCHANGED <<status, err, total_written>>

\* Mutant: every failed read is retried, whatever errno says.
OnReadError_Retry ==
    /\ pc' = "read"
    /\ UNCHANGED <<status, err, total_written>>

\* bytes_read < 0, other errno: perror; return 1.
OnReadError ==
    /\ err' = Append(err, Line("Error reading from stdin", <<>>))
    /\ Exit(1)
    /\ UNCHANGED total_written

\* Mutant: a partial read is answered like an interrupted one, by continue.
OnReadPartial_Continue ==
    /\ pc' = "read"
    /\ UNCHANGED <<status, err, total_written>>

\* Mutant: a partial read is taken for the end of the input: break, return 0.
OnReadPartial_Break ==
    /\ Exit(0)
    /\ UNCHANGED <<err, total_written>>

\* bytes_read < event_size: fprintf; return 1.
OnReadPartial ==
    /\ err' = Append(err, Line("Error: Partial read from stdin", <<bytes_read'>>))
    /\ Exit(1)
    /\ UNCHANGED total_written

\* Mutant: the log statement is missing; a full record goes straight to the write.
OnReadFull_SkipLog ==
    /\ pc' = "write"
    /\ UNCHANGED <<status, err, total_written>>

\* A full record: fall through to the log.
OnReadFull ==
    /\ pc' = "log"
    /\ UNCHANGED <<status, err, total_written>>

\* Mutant: the log step alters the record it prints.
Log_Clobber ==
    /\ pc = "log"
    /\ err' = Append(err, Line("Read event", ev))
    /\ ev' = [ev EXCEPT ![1] = 0]
    /\ pc' = "write"
    /\ UNCHANGED <<input, pos, bytes_read, bytes_written, total_written, out,
                   status, last, site, seen, req, sent, nreads, nwrites, nintr, nzero,
                   spin>>

\* Mutant: the line is printed only for a record whose first byte is not zero.
Log_Filtered ==
    /\ pc = "log"
    /\ err' = IF ev[1] = 0 THEN err ELSE Append(err, Line("Read event", ev))
    /\ pc' = "write"
    /\ UNCHANGED <<input, pos, ev, bytes_read, bytes_written, total_written, out,
                   status, last, site, seen, req, sent, nreads, nwrites, nintr, nzero,
                   spin>>

\* fprintf(stderr, "Read event: ..."), then on to the write.
Log ==
    /\ pc = "log"
    /\ err' = Append(err, Line("Read event", ev))
    /\ pc' = "write"
    /\ UNCHANGED <<input, pos, ev, bytes_read, bytes_written, total_written, out,
                   status, last, site, seen, req, sent, nreads, nwrites, nintr, nzero,
                   spin>>

\* bytes_written == event_size: next iteration of while (1).
OnWriteFull ==
    /\ pc' = "read"
    /\ UNCHANGED <<status, err, total_written>>

\* bytes_written < 0, errno == EPIPE: fprintf; break; return 0.
OnWriteEPIPE ==
    /\ err' = Append(err, Line("Simple_pipe: Output pipe broken, exiting.", <<>>))
    /\ Exit(0)
    /\ UNCHANGED total_written

\* Mutant: an interrupted write is answered like an interrupted read, by
\* continue, and the record is dropped.
OnWriteEINTR_Continue ==
    /\ pc' = "read"
    /\ UNCHANGED <<status, err, total_written>>

\* bytes_written < 0, errno == EINTR: total_written = 0; enter the retry loop.
OnWriteEINTR ==
    /\ total_written' = 0
    /\ pc' = "retry"
    /\ UNCHANGED <<status, err>>

\* Mutant: a write error leaves the loop by break, like EPIPE, and returns 0.
OnWriteError_Break ==
    /\ err' = Append(err, Line("Error writing to stdout", <<>>))
    /\ Exit(0)
    /\ UNCHANGED total_written

\* bytes_written < 0, other errno: perror; return 1.
OnWriteError ==
    /\ err' = Append(err, Line("Error writing to stdout", <<>>))
    /\ Exit(1)
    /\ UNCHANGED total_written

\* Mutant: the partial-write branch is missing; the loop goes on to the next read.
OnWritePartial_Ignore ==
    /\ pc' = "read"
    /\ UNCHANGED <<status, err, total_written>>

\* 0 <= bytes_written < event_size: fprintf; return 1.
OnWritePartial ==
    /\ err' = Append(err, Line("Error: Partial write to stdout", <<bytes_written'>>))
    /\ Exit(1)
    /\ UNCHANGED total_written

\* Mutant: the retry asks for the whole record size at every offset.
Remaining_Whole(tw) == event_size

\* event_size - total_written, the length of a retry write.
Remaining(tw) == event_size - tw

\* Mutant: total_written = bytes_written, an assignment for the +=.
Accumulate_Assign(tw, n) == n

\* total_written += bytes_written
Accumulate(tw, n) == tw + n

\* Mutant: the loop test is off by one.
AfterRetry_OffByOne(tw) == IF tw < event_size - 1 THEN "retry" ELSE "read"

\* while (total_written < event_size): the retry write again, else continue the
\* outer loop.
AfterRetry(tw) == IF tw < event_size THEN "retry" ELSE "read"

\* Mutant: the outer loop is continued after the first retry write that does not
\* fail, without the inner loop test.
OnRetryProgress_Once ==
    /\ total_written' = Accumulate(total_written, bytes_written')
    /\ pc' = "read"
    /\ UNCHANGED <<status, err>>

\* In the retry loop, bytes_written >= 0: accumulate and test the loop condition.
OnRetryProgress ==
    /\ total_written' = Accumulate(total_written, bytes_written')
    /\ pc' = AfterRetry(total_written')
    /\ UNCHANGED <<status, err>>

\* In the retry loop, errno == EINTR: continue.
OnRetryEINTR ==
    /\ pc' = AfterRetry(total_written)
    /\ UNCHANGED <<status, err, total_written>>

\* Mutant: a broken pipe seen in the retry loop is reported as a failure.
OnRetryEPIPE_Fatal ==
    /\ err' = Append(err, Line("Simple_pipe: Output pipe broken during retry, exiting.", <<>>))
    /\ Exit(1)
    /\ UNCHANGED total_written

\* In the retry loop, errno == EPIPE: fprintf; goto end_loop; return 0.
OnRetryEPIPE ==
    /\ err' = Append(err, Line("Simple_pipe: Output pipe broken during retry, exiting.", <<>>))
    /\ Exit(0)
    /\ UNCHANGED total_written

\* In the retry loop, other errno: perror; return 1.
OnRetryError ==
    /\ err' = Append(err, Line("Error writing to stdout during retry", <<>>))
    /\ Exit(1)
    /\ UNCHANGED total_written

-----------------------------------------------------------------------------
\* main() is entered with nothing read or written.  ev is indeterminate at
\* entry; no branch reads it before a full read() has filled it, so its
\* initial bytes are fixed here.
Init ==
    /\ input \in UNION {[1..n -> Byte] : n \in 0..MaxInput}
    /\ pos = 0
    /\ ev = [i \in 1..event_size |-> 0]
    /\ bytes_read = 0
    /\ bytes_written = 0
    /\ total_written = 0
    /\ out = <<>>
    /\ err = <<>>
    /\ pc = "read"
    /\ status = -1
    /\ last = <<"none", "none">>
    /\ site = 0
    /\ seen = {}
    /\ req = <<0, 0>>
    /\ sent = 0
    /\ nreads = 0
    /\ nwrites = 0
    /\ nintr = 0
    /\ nzero = 0
    /\ spin = 0

-----------------------------------------------------------------------------
\* The steps of a run: one per outcome of the call at pc

ReadFull ==
    /\ pc = "read"
    /\ Avail >= event_size
    /\ SysRead(event_size, "FULL")
    /\ OnReadFull

ReadEOF ==
    /\ pc = "read"
    /\ Avail = 0
    /\ SysRead(0, "EOF")
    /\ OnReadZero

ReadEINTR ==
    /\ pc = "read"
    /\ nintr < MaxIntr
    /\ SysRead(-1, "EINTR")
    /\ OnReadEINTR

ReadError ==
    /\ pc = "read"
    /\ SysRead(-1, "ERR")
    /\ OnReadError

ReadShort ==
    /\ pc = "read"
    /\ \E n \in 1..(event_size - 1) :
        /\ n <= Avail
        /\ SysRead(n, "SHORT")
    /\ OnReadPartial

WriteFull ==
    /\ pc = "write"
    /\ SysWrite(39, 0, event_size, event_size, "FULL")
    /\ OnWriteFull

WriteEPIPE ==
    /\ pc = "write"
    /\ SysWrite(39, 0, event_size, -1, "EPIPE")
    /\ OnWriteEPIPE

WriteEINTR ==
    /\ pc = "write"
    /\ nintr < MaxIntr
    /\ SysWrite(39, 0, event_size, -1, "EINTR")
    /\ OnWriteEINTR

WriteError ==
    /\ pc = "write"
    /\ SysWrite(39, 0, event_size, -1, "ERR")
    /\ OnWriteError

\* The write returns fewer bytes than asked, zero included.
WriteShort ==
    /\ pc = "write"
    /\ \E n \in 0..(event_size - 1) :
        SysWrite(39, 0, event_size, n, IF n = 0 THEN "ZERO" ELSE "SHORT")
    /\ OnWritePartial

\* A retry write returns n > 0 bytes, all that was asked or fewer.
RetryWrite ==
    /\ pc = "retry"
    /\ \E n \in 1..Remaining(total_written) :
        SysWrite(52, total_written, Remaining(total_written), n,
                 IF n < Remaining(total_written) THEN "SHORT" ELSE "FULL")
    /\ OnRetryProgress

RetryZero ==
    /\ pc = "retry"
    /\ nzero < MaxZero
    /\ SysWrite(52, total_written, Remaining(total_written), 0, "ZERO")
    /\ OnRetryProgress

RetryEINTR ==
    /\ pc = "retry"
    /\ nintr < MaxIntr
    /\ SysWrite(52, total_written, Remaining(total_written), -1, "EINTR")
    /\ OnRetryEINTR

RetryEPIPE ==
    /\ pc = "retry"
    /\ SysWrite(52, total_written, Remaining(total_written), -1, "EPIPE")
    /\ OnRetryEPIPE

RetryError ==
    /\ pc = "retry"
    /\ SysWrite(52, total_written, Remaining(total_written), -1, "ERR")
    /\ OnRetryError

Next ==
    \/ ReadFull
    \/ ReadEOF
    \/ ReadEINTR
    \/ ReadError
    \/ ReadShort
    \/ Log
    \/ WriteFull
    \/ WriteEPIPE
    \/ WriteEINTR
    \/ WriteError
    \/ WriteShort
    \/ RetryWrite
    \/ RetryZero
    \/ RetryEINTR
    \/ RetryEPIPE
    \/ RetryError

Spec == Init /\ [][Next]_vars

\* A retry write returns 0 once more after nzero has reached its cap.  The
\* program does what it does in RetryZero; the call counters stay where they
\* are, which keeps the state space finite, and spin records the call.
RetryZeroAgain ==
    /\ pc = "retry"
    /\ nzero >= MaxZero
    /\ bytes_written' = 0
    /\ req' = <<total_written, Remaining(total_written)>>
    /\ last' = <<"write", "ZERO">>
    /\ site' = 52
    /\ seen' = Note("write", "ZERO")
    /\ spin' = 1 - spin
    /\ UNCHANGED <<input, pos, ev, bytes_read, out, sent, nreads, nwrites, nintr, nzero>>
    /\ OnRetryProgress

\* The runs in which write() may return 0 any number of times.
NextLive ==
    \/ Next
    \/ RetryZeroAgain

\* The process keeps running: a call that can return does return, and main()
\* takes its next step.  EINTR failures are finitely many (MaxIntr).
SpecLive == Init /\ [][NextLive]_vars /\ WF_vars(NextLive)

-----------------------------------------------------------------------------
\* Properties

\* The bytes of input delivered so far.
Consumed == SubSeq(input, 1, pos)

\* Only EINTR failures have been seen; every other call transferred in full.
OnlyIntr == seen \subseteq {<<"read", "EINTR">>, <<"write", "EINTR">>}

LastLine == err[Len(err)]

\* C1 Fidelity: a run in which every read() returned a full record or 0 at the
\* end and every write() returned the full record size ends with status 0 and
\* with the output equal to the input, byte for byte, each record sent by one
\* write().
C1_Fidelity ==
    (pc = "done" /\ seen = {}) =>
        /\ status = 0
        /\ out = input
        /\ nwrites * event_size = Len(input)
        /\ nreads = nwrites + 1

C1_Witness ==
    /\ pc = "done"
    /\ seen = {}
    /\ Len(out) = 2 * event_size
    /\ \E i \in 1..Len(out) : out[i] = 1

\* C2 Interrupted-write resumption: after a write() of the current record was
\* interrupted, failing with EINTR before any byte or returning the k bytes it
\* had transmitted, the program goes on to send the rest of that record: it is
\* in the retry loop with total_written equal to the bytes already on the output.
C2_WriteResumption ==
    (last \in {<<"write", "EINTR">>, <<"write", "SHORT">>}) =>
        /\ pc = "retry"
        /\ total_written = sent

\* C3 Interrupts are invisible: as long as the only faults are EINTR failures,
\* the program never exits non-zero, at every record boundary the output is
\* exactly the input consumed, and at the end it is the whole input.
C3_InterruptsInvisible ==
    OnlyIntr =>
        /\ status # 1
        /\ pc = "read" => out = Consumed
        /\ pc = "done" => (status = 0 /\ out = input)

C3_Witness ==
    /\ pc = "done"
    /\ seen = {<<"read", "EINTR">>, <<"write", "EINTR">>}
    /\ Len(out) >= event_size

\* C4 Broken-pipe tolerance: an EPIPE failure of write(), initial or retried,
\* ends the run with status 0; the output is the records forwarded before plus
\* the bytes of the current record already transmitted, fewer than a record; the
\* two cases differ in the diagnostic line only.
C4_BrokenPipe ==
    (last = <<"write", "EPIPE">>) =>
        /\ pc = "done"
        /\ status = 0
        /\ sent < event_size
        /\ Len(out) = (pos - event_size) + sent
        /\ out = SubSeq(input, 1, Len(out))
        /\ site = 39 => LastLine.msg = "Simple_pipe: Output pipe broken, exiting."
        /\ site = 52 => LastLine.msg = "Simple_pipe: Output pipe broken during retry, exiting."

C4_Witness ==
    /\ last = <<"write", "EPIPE">>
    /\ site = 52
    /\ sent > 0
    /\ pos > event_size

\* C5 Clean EOF: a read() that returns 0 ends the run with status 0; the input
\* was a whole number of records and all of it is on the output.
C5_CleanEOF ==
    (last = <<"read", "EOF">>) =>
        /\ pc = "done"
        /\ status = 0
        /\ pos = Len(input)
        /\ Len(input) % event_size = 0
        /\ out = input

C5_Witness ==
    /\ last = <<"read", "EOF">>
    /\ Len(out) = 2 * event_size
    /\ <<"write", "SHORT">> \in seen

\* C6 Corrupt short read: a read() that returns n with 0 < n < event_size ends
\* the run with a non-zero status; the read is not retried and the output holds
\* only the whole records before the partial one.
C6_ShortRead ==
    (site = 15 /\ 0 < bytes_read /\ bytes_read < event_size) =>
        /\ pc = "done"
        /\ status = 1
        /\ Len(out) = pos - bytes_read
        /\ Len(out) % event_size = 0
        /\ out = SubSeq(input, 1, Len(out))

C6_Witness ==
    /\ site = 15
    /\ bytes_read = event_size - 1
    /\ Len(out) = event_size
    /\ Len(input) > pos

\* C7 Exit status mapping: a finished run has status 0 exactly when its last
\* call was a zero-byte read or a write failing with EPIPE, and status 1
\* exactly when it was a read error other than EINTR, a short read, a short
\* write, or a write error other than EINTR and EPIPE; an unfinished run has no
\* status, and EINTR never finishes a run.
C7_ExitStatus ==
    /\ pc # "done" => status = -1
    /\ last[2] = "EINTR" => pc # "done"
    /\ pc = "done" =>
        /\ status \in {0, 1}
        /\ status = 0 <=> last \in {<<"read", "EOF">>, <<"write", "EPIPE">>}
        /\ status = 1 <=> last \in {<<"read", "ERR">>, <<"read", "SHORT">>,
                                    <<"write", "SHORT">>, <<"write", "ZERO">>,
                                    <<"write", "ERR">>}

C7_Witness ==
    /\ pc = "done"
    /\ status = 1
    /\ last = <<"write", "ERR">>
    /\ site = 52
    /\ sent > 0

\* C8 as stated: every write() that returns a positive count below the record
\* size ends the run with a non-zero status, in the retry loop as well.
C8_ShortWriteFatal ==
    (last[1] = "write" /\ 0 < bytes_written /\ bytes_written < event_size) =>
        /\ pc = "done"
        /\ status = 1

\* C8 amended: the initial write() of a record ends the run with a non-zero
\* status when it returns a positive count below the record size; a write() of
\* the retry loop that returns such a count does not end the run: the count is
\* added to total_written and the loop goes on until the record is complete.
C8_ShortWriteFatalInitialOnly ==
    (last[1] = "write" /\ 0 < bytes_written /\ bytes_written < event_size) =>
        /\ site = 39 => (pc = "done" /\ status = 1)
        /\ site = 52 =>
            /\ status = -1
            /\ total_written = sent
            /\ pc = IF total_written < event_size THEN "retry" ELSE "read"

C8_Witness ==
    /\ last = <<"write", "SHORT">>
    /\ site = 52
    /\ pc = "retry"
    /\ total_written > 0

\* C9 Interrupted read preserves received bytes: after a read() was interrupted
\* with some bytes of the record received, which it returns as a short count,
\* the program keeps reading to assemble the rest of the record.
C9_ReadResumption ==
    (last = <<"read", "SHORT">>) =>
        /\ pc = "read"
        /\ status = -1

\* C10 No record is partially forwarded: whenever a read() is about to be
\* issued, and when the run ended on a zero-byte read, the output is a whole
\* number of records; a finished run leaves a record incomplete on the output
\* only if it ended in that record's write, on EPIPE or on a fatal error.
C10_NoPartialForward ==
    /\ pc = "read" => Len(out) % event_size = 0
    /\ (pc = "done" /\ last = <<"read", "EOF">>) => Len(out) % event_size = 0
    /\ (pc = "done" /\ Len(out) % event_size # 0) =>
        /\ last \in {<<"write", "EPIPE">>, <<"write", "SHORT">>, <<"write", "ERR">>}
        /\ sent = Len(out) % event_size

C10_Witness ==
    /\ pc = "read"
    /\ Len(out) = 2 * event_size
    /\ <<"write", "SHORT">> \in seen
    /\ <<"write", "ZERO">> \in seen

\* The i-th record of the input.
Record(i) == SubSeq(input, (i - 1) * event_size + 1, i * event_size)

\* How many lines on stderr are 'Read event' lines.
ReadEventLines == Cardinality({i \in 1..Len(err) : err[i].msg = "Read event"})

\* C11 One diagnostic line per record, in order: in a run without faults the
\* lines on stderr are 'Read event' lines only, the i-th showing the i-th
\* record; the line of a record is there once the record is read and logged,
\* before its first write(): at the write of record N there are N lines and
\* N - 1 write() calls, and a finished run over N records has N lines.
C11_OneLinePerRecord ==
    seen = {} =>
        /\ \A i \in 1..Len(err) : err[i] = Line("Read event", Record(i))
        /\ pc = "log" => (Len(err) + 1) * event_size = pos
        /\ pc # "log" => Len(err) * event_size = pos
        /\ pc = "log" => nwrites = Len(err)
        /\ pc = "write" => nwrites = Len(err) - 1
        /\ pc = "done" => Len(err) * event_size = Len(input)

C11_Witness ==
    /\ pc = "done"
    /\ seen = {}
    /\ Len(err) = 2
    /\ err[1] # err[2]

\* The latest call failed fatally: a read error other than EINTR, a short
\* read, a short count from the initial write, or a write error other than
\* EINTR and EPIPE.
FatalOutcome ==
    \/ last \in {<<"read", "ERR">>, <<"read", "SHORT">>, <<"write", "ERR">>}
    \/ (site = 39 /\ last \in {<<"write", "SHORT">>, <<"write", "ZERO">>})

\* The diagnostic main() prints for the latest call's failure.
FailureLine ==
    CASE last = <<"read", "ERR">> -> Line("Error reading from stdin", <<>>)
      [] last = <<"read", "SHORT">> -> Line("Error: Partial read from stdin", <<bytes_read>>)
      [] last = <<"write", "ERR">> /\ site = 39 -> Line("Error writing to stdout", <<>>)
      [] last = <<"write", "ERR">> /\ site = 52 -> Line("Error writing to stdout during retry", <<>>)
      [] OTHER -> Line("Error: Partial write to stdout", <<bytes_written>>)

C13_RetryTerminates == (pc = "retry") ~> (pc # "retry")

\* C14 Record-synchronous relay: whenever a read() is about to be issued every
\* byte delivered so far is on the output, so the read for the next record
\* follows the last byte of the one before, also after a retry loop; and the
\* bytes read but not yet written are never more than one record.
C14_RecordSynchronous ==
    /\ pc = "read" => (Len(out) = pos /\ (sent = event_size \/ nwrites = 0))
    /\ pos - Len(out) \in 0..event_size
    /\ pc \in {"log", "write", "retry"} => pos - Len(out) = event_size - sent

C14_Witness ==
    /\ pc = "read"
    /\ site = 52
    /\ pos = event_size
    /\ Avail >= event_size
    /\ <<"write", "SHORT">> \in seen

\* C15 End-of-stream only at a record boundary: every read() is issued with
\* the input consumed up to a record boundary and nothing of a pending record
\* held; a zero-byte read is seen only there, with the input exhausted; and a
\* run that ends with status 0 holds no partially read record.
C15_EOFAtBoundary ==
    /\ pc = "read" => (pos % event_size = 0 /\ Len(out) = pos)
    /\ bytes_read = 0 /\ nreads > 0 => (pos % event_size = 0 /\ Avail = 0 /\ pc = "done")
    /\ status = 0 => pos % event_size = 0

C15_Witness ==
    /\ last = <<"read", "EOF">>
    /\ status = 0
    /\ pos = 2 * event_size
    /\ <<"read", "EINTR">> \in seen

\* The bytes of input that belong to records read in full.
FullRecordBytes == pos - (IF last = <<"read", "SHORT">> THEN bytes_read ELSE 0)

\* C16 Prefix invariant: in every reachable state, whatever the mix of EINTR,
\* EPIPE, short transfers and errors, the output is a prefix of the bytes of
\* the records read in full so far.
C16_OutputIsPrefix ==
    /\ Len(out) <= FullRecordBytes
    /\ out = SubSeq(input, 1, Len(out))

C16_Witness ==
    /\ pc = "retry"
    /\ total_written = 2
    /\ Len(out) = event_size + 2
    /\ out[Len(out)] # out[Len(out) - 1]
    /\ seen = {<<"read", "EINTR">>, <<"write", "EINTR">>, <<"write", "SHORT">>, <<"write", "ZERO">>}

\* What holds of total_written and of the latest request in and after the loop.
C17_State ==
    /\ pc = "retry" =>
        /\ 0 <= total_written
        /\ total_written < event_size
        /\ total_written = sent
    /\ site = 52 =>
        /\ req[1] \in 0..(event_size - 1)
        /\ req[2] = event_size - req[1]
        /\ req[2] >= 1
        /\ total_written = req[1] + Max0(bytes_written)
        /\ total_written <= event_size
    /\ (site = 52 /\ pc = "read") => total_written = event_size

\* What holds of every step taken inside the loop.
C17_Step ==
    pc = "retry" =>
        /\ req' = <<total_written, event_size - total_written>>
        /\ total_written' >= total_written

\* C17 Retry-loop bounds: inside the retry loop 0 <= total_written <=
\* event_size; every write() of the loop is requested at offset total_written
\* with length event_size - total_written, at least 1; total_written never
\* decreases; and when the loop is left by completion total_written is
\* event_size.
C17_RetryBounds == []C17_State /\ [][C17_Step]_vars

C17_Witness ==
    /\ site = 52
    /\ pc = "read"
    /\ req = <<2, 1>>
    /\ <<"write", "ZERO">> \in seen

\* Records read in full, and records completely on the output.
FullRecordsRead == FullRecordBytes \div event_size

CompleteRecords == Len(out) \div event_size

\* The run ended in a write: on EPIPE, on a short count or on an error.
EndedInWrite == pc = "done" /\ last[1] = "write"

\* C18 as stated: in every reachable state the 'Read event' lines are as many
\* as the records read in full, and 0 or 1 more than the records completely
\* written; a run that ended on EPIPE or on a write failure has a line for a
\* record that was not completely forwarded.
C18_LogForwardGap ==
    /\ ReadEventLines = FullRecordsRead
    /\ ReadEventLines - CompleteRecords \in {0, 1}
    /\ EndedInWrite => (ReadEventLines = CompleteRecords + 1 /\ sent < event_size)

\* C18 amended: the lines are as many as the records read in full in every
\* state but the one between the return of a full read() and the fprintf of its
\* line, where they are one fewer; the rest as stated.
C18_LogForwardGapAfterLog ==
    /\ pc # "log" => ReadEventLines = FullRecordsRead
    /\ pc = "log" => ReadEventLines = FullRecordsRead - 1
    /\ ReadEventLines - CompleteRecords \in {0, 1}
    /\ EndedInWrite => (ReadEventLines = CompleteRecords + 1 /\ sent < event_size)

C18_Witness ==
    /\ EndedInWrite
    /\ last = <<"write", "EPIPE">>
    /\ site = 52
    /\ ReadEventLines = 2
    /\ CompleteRecords = 1

====
